---- MODULE Spec2Model ----
(***************************************************************************)
(* Data-access layer of the food tracker: the schema of                    *)
(* src/database.py / src/turso_database.py, the SQLite-backed operations   *)
(* of src/utils/db_utils.py, the Turso-backed operations of                *)
(* src/utils/turso_db_utils.py and the Add Restaurant page of main.py.     *)
(***************************************************************************)
EXTENDS Integers, FiniteSets, Sequences, Bags, TLC

VARIABLES
    backend,       \* "sqlite" (db_utils.py) or "turso" (turso_db_utils.py)
    foreign_keys,  \* whether the connection enforces FOREIGN KEY clauses
    secrets,       \* DB_URL and AUTH_TOKEN are both non-empty
    cache,         \* st.cache_resource entry of get_turso_connection
    db,            \* the three tables and the AUTOINCREMENT counters
    last,          \* the last call: operation, arguments, result, steps done
    pc,            \* where each concurrent caller of connect_db stands
    compute_value_lock,  \* holder of the cache's lock, 0 when free
    received,      \* what connect_db handed to each caller
    connects       \* calls of libsql.connect that returned a connection

\* the variables of the callers of connect_db
threads == <<pc, compute_value_lock, received, connects>>

vars == <<backend, foreign_keys, secrets, cache, db, last, threads>>

----------------------------------------------------------------------------
(* Bounds *)

\* restaurants ever inserted (cap on the AUTOINCREMENT counter)
MaxRestaurants == 2
\* reviews stored at one time
MaxReviews == 2
\* restaurants ever inserted where the ids are followed
MaxIds == 4
\* reviews stored at one time where averages are read
MaxRatings == 3
\* threads that call connect_db at the same time
NumCallers == 3

----------------------------------------------------------------------------
(* Values *)

\* Python None / SQL NULL in a text position
NoneStr == "<None>"
\* Python None / SQL NULL in an integer position (no modelled input is negative)
NoneInt == 0 - 1

default_users == {"Mahantesh", "Shweta", "Manjusha", "Anish", "Raj"}

\* the name typed or clicked on the Manage Users page
UserNames == {"Zoe"}
\* titles a caller passes: missing, or a name
Titles == {NoneStr, "Spice Hub"}
\* ratings a caller passes: below, inside and above the range, and missing
Ratings == {0, 3, 6, NoneInt}
\* restaurant ids a caller passes: an id names a restaurant that exists, that
\* was deleted, or that was not created yet
RestaurantIds == 1..MaxRestaurants
Comments == {"", "Great"}
\* the position of a rating slider (min 1, max 5, default 3)
SliderRatings == {3}

\* where a store call of a Turso operation raises, if anywhere: "commit" is a
\* raise before the transaction is committed (the statement was executed,
\* nothing is stored), "sync" a raise of conn.sync() after the commit
Faults == {"none", "commit", "sync"}
\* the same for the operations that never call conn.sync()
FaultsNoSync == {"none", "commit"}

----------------------------------------------------------------------------
(* Schema: constraints of the CREATE TABLE statements *)

\* rating INTEGER CHECK(rating >= 1 AND rating <= 5): a CHECK fails only when
\* its expression is false; with a NULL rating the expression is NULL
CheckRatingNoUpper(rating) ==
    IF rating = NoneInt THEN TRUE ELSE rating >= 1

CheckRating(rating) ==
    IF rating = NoneInt THEN TRUE ELSE rating >= 1 /\ rating <= 5

\* FOREIGN KEY (restaurant_id) REFERENCES restaurants (id): enforced only on a
\* connection that has foreign keys switched on
ForeignKeyOk(d, restaurant_id, fk) ==
    fk => \E r \in d.restaurants : r.id = restaurant_id

\* INSERT INTO restaurants: title TEXT NOT NULL, id AUTOINCREMENT
InsertRestaurantOk(title) == title # NoneStr

\* INTEGER PRIMARY KEY without AUTOINCREMENT: one more than the largest id
\* stored now
LargestRowidPlusOne(d) ==
    IF d.restaurants = {} THEN 1
    ELSE 1 + (CHOOSE i \in {r.id : r \in d.restaurants} :
                 \A r \in d.restaurants : r.id <= i)

\* INTEGER PRIMARY KEY AUTOINCREMENT: one more than the largest id ever used
AutoIncrement(d) == d.seq_restaurants + 1

InsertRestaurant(d, title, cuisines, area, google_map_link, added_by, picture) ==
    [d EXCEPT
        !.restaurants = @ \cup {[id |-> AutoIncrement(d),
                                 title |-> title,
                                 cuisines |-> cuisines,
                                 area |-> area,
                                 google_map_link |-> google_map_link,
                                 added_by |-> added_by,
                                 restaurant_picture |-> picture]},
        !.seq_restaurants = AutoIncrement(d)]

\* INSERT INTO reviews: restaurant_id NOT NULL, reviewer_name NOT NULL,
\* the rating CHECK and the foreign key
InsertReviewOk(d, restaurant_id, reviewer_name, rating, fk) ==
    /\ restaurant_id # NoneInt
    /\ reviewer_name # NoneStr
    /\ CheckRating(rating)
    /\ ForeignKeyOk(d, restaurant_id, fk)

\* The reviews table is a bag of rows: the generated id and review_date of a
\* row are left out, no operation here selects or orders by them, and
\* COUNT(rev.id) counts rows.
InsertReview(d, restaurant_id, reviewer_name, rating, comment) ==
    [d EXCEPT
        !.reviews = @ (+) SetToBag({[restaurant_id |-> restaurant_id,
                                     reviewer_name |-> reviewer_name,
                                     rating |-> rating,
                                     comment |-> comment]})]

\* DELETE FROM restaurants WHERE id = ?: ON DELETE CASCADE removes the
\* referencing reviews only when foreign keys are enforced
\* the rows of a bag of reviews that belong to the restaurants in "ids"
ReviewsOf(reviews, ids) ==
    [v \in {x \in BagToSet(reviews) : x.restaurant_id \in ids} |-> reviews[v]]

\* DELETE FROM restaurants WHERE id <= ?
DeleteRestaurantRowAtMost(d, restaurant_id, fk) ==
    [d EXCEPT !.restaurants = {r \in @ : r.id > restaurant_id}]

DeleteRestaurantRow(d, restaurant_id, fk) ==
    [d EXCEPT
        !.restaurants = {r \in @ : r.id # restaurant_id},
        !.reviews = IF fk
                    THEN ReviewsOf(@, {v.restaurant_id : v \in BagToSet(@)}
                                      \ {restaurant_id})
                    ELSE @]

\* INSERT INTO users: name TEXT NOT NULL UNIQUE
\* the name column without its UNIQUE constraint
InsertUserOkNoUnique(d, name) == name # NoneStr

InsertUserOk(d, name) == name # NoneStr /\ name \notin BagToSet(d.users)

InsertUser(d, name) == [d EXCEPT !.users = @ (+) SetToBag({name})]

DeleteUserRow(d, name) ==
    [d EXCEPT !.users = [n \in BagToSet(@) \ {name} |-> @[n]]]

----------------------------------------------------------------------------
(* Reads *)

\* SELECT ... FROM reviews WHERE restaurant_id = ?
get_reviews_for_restaurant(d, restaurant_id) ==
    ReviewsOf(d.reviews, {restaurant_id})

\* ids of the rows of SELECT ... FROM restaurants r LEFT JOIN reviews ...
\* GROUP BY r.id: one row per restaurant
fetch_all_restaurants_ids(d) == {r.id : r \in d.restaurants}

\* with no filter search_restaurants issues the query of fetch_all_restaurants
search_restaurants_ids(d) == {r.id : r \in d.restaurants}

\* INSERT INTO users without OR IGNORE: a second row of a name raises
InsertPlainUser(d, name) ==
    IF InsertUserOk(d, name)
    THEN [db |-> InsertUser(d, name), raised |-> FALSE]
    ELSE [db |-> d, raised |-> TRUE]

\* INSERT OR IGNORE INTO users (name) VALUES (?)
InsertOrIgnoreUser(d, name) ==
    IF InsertUserOk(d, name)
    THEN [db |-> InsertUser(d, name), raised |-> FALSE]
    ELSE [db |-> d, raised |-> FALSE]

\* "for user in default_users": stops at the first statement that raises
RECURSIVE InsertDefaultUsers(_, _)
InsertDefaultUsers(d, names) ==
    IF names = {} THEN [db |-> d, raised |-> FALSE]
    ELSE LET user == CHOOSE n \in names : TRUE
             r == InsertOrIgnoreUser(d, user)
         IN IF r.raised THEN r ELSE InsertDefaultUsers(r.db, names \ {user})

\* the three CREATE TABLE IF NOT EXISTS statements
CreateTables(d) == [d EXCEPT !.tables = TRUE]

\* SELECT name FROM users ORDER BY name: the names the model uses, ascending
NameOrder == <<"Anish", "Mahantesh", "Manjusha", "Raj", "Shweta", "Zoe">>

RECURSIVE UsersFrom(_, _)
UsersFrom(users, i) ==
    IF i > Len(NameOrder) THEN <<>>
    ELSE [k \in 1..CopiesIn(NameOrder[i], users) |-> NameOrder[i]]
         \o UsersFrom(users, i + 1)

\* SELECT name FROM users ORDER BY name DESC
get_all_users_desc(d) ==
    LET asc == UsersFrom(d.users, 1)
    IN [i \in 1..Len(asc) |-> asc[Len(asc) + 1 - i]]

get_all_users(d) == UsersFrom(d.users, 1)

\* SELECT COUNT(*) FROM users
get_user_count(d) == BagCardinality(d.users)

----------------------------------------------------------------------------
(* Reads with aggregates: fetch_all_restaurants and search_restaurants.     *)
(* A filter string and a searched column are sequences of one-character     *)
(* strings; None / NULL is NoneText.                                        *)

NoneText == <<NoneStr>>

\* lower(c) for the letters the model uses: LIKE folds ASCII case
Lower(c) ==
    IF c = "A" THEN "a" ELSE IF c = "B" THEN "b" ELSE c

\* SQLite's  text LIKE pattern  without ESCAPE: % is any run of characters,
\* _ is any one character, a letter matches in either case
RECURSIVE LikeMatch(_, _)
LikeMatch(pattern, text) ==
    IF pattern = <<>> THEN text = <<>>
    ELSE IF Head(pattern) = "%"
    THEN LikeMatch(Tail(pattern), text)
         \/ (text # <<>> /\ LikeMatch(pattern, Tail(text)))
    ELSE /\ text # <<>>
         /\ (Head(pattern) = "_" \/ Lower(Head(pattern)) = Lower(Head(text)))
         /\ LikeMatch(Tail(pattern), Tail(text))

\* column LIKE ?: NULL for a NULL column, which WHERE treats as no match
Like(column, pattern) ==
    column # NoneText /\ LikeMatch(pattern, column)

\* a filter counts as given when it is anything but None
TruthyNotNone(text) == text # NoneText

\* "if area:" / "if cuisine:": None and the empty string add no condition
Truthy(text) == text # NoneText /\ text # <<>>

\* the two conditions joined with OR
WhereOr(r, area, cuisine) ==
    \/ ~Truthy(area) /\ ~Truthy(cuisine)
    \/ Truthy(area) /\ Like(r.area, <<"%">> \o area \o <<"%">>)
    \/ Truthy(cuisine) /\ Like(r.cuisines, <<"%">> \o cuisine \o <<"%">>)

\* the WHERE clause: the conditions that were appended, joined with AND,
\* each bound to f"%{value}%"; no WHERE when none was appended
Where(r, area, cuisine) ==
    /\ Truthy(area) => Like(r.area, <<"%">> \o area \o <<"%">>)
    /\ Truthy(cuisine) => Like(r.cuisines, <<"%">> \o cuisine \o <<"%">>)

\* SUM(rating) over the distinct rows S of a bag of reviews: NULLs are skipped
RECURSIVE SumRatings(_, _)
SumRatings(S, reviews) ==
    IF S = {} THEN 0
    ELSE LET v == CHOOSE x \in S : TRUE
         IN (IF v.rating = NoneInt THEN 0 ELSE v.rating * reviews[v])
            + SumRatings(S \ {v}, reviews)

\* a rational num/den; AVG of no value is NULL
NullAvg == [num |-> 0, den |-> 0]
ZeroAvg == [num |-> 0, den |-> 1]

\* AVG(rev.rating) over a group: the mean of the non-NULL ratings
Avg(reviews) ==
    LET rated == [v \in {x \in BagToSet(reviews) : x.rating # NoneInt}
                    |-> reviews[v]]
    IN IF rated = EmptyBag THEN NullAvg
       ELSE [num |-> SumRatings(BagToSet(rated), rated),
             den |-> BagCardinality(rated)]

\* AVG handed on as it is
NoCoalesce(a) == a

\* COALESCE(AVG(rev.rating), 0)
Coalesce(a) == IF a = NullAvg THEN ZeroAvg ELSE a

\* one row of the LEFT JOIN ... GROUP BY r.id: the seven selected columns of
\* the restaurant, avg_rating and review_count = COUNT(rev.id)
AggregateRow(d, r) ==
    LET group == ReviewsOf(d.reviews, {r.id})
    IN [id |-> r.id, title |-> r.title, cuisines |-> r.cuisines,
        area |-> r.area, google_map_link |-> r.google_map_link,
        added_by |-> r.added_by, restaurant_picture |-> r.restaurant_picture,
        avg_rating |-> Coalesce(Avg(group)),
        review_count |-> BagCardinality(group)]

\* ORDER BY r.id DESC
\* the average cut off after one decimal
RoundDown1(a) == [num |-> (10 * a.num) \div a.den, den |-> 10]

\* round(x, 1) of Python: to the nearest tenth, a tie to the even one
Round1(a) ==
    LET q == (10 * a.num) \div a.den
        r == (10 * a.num) % a.den
    IN [num |-> IF 2 * r < a.den THEN q
                ELSE IF 2 * r > a.den THEN q + 1
                ELSE IF q % 2 = 0 THEN q ELSE q + 1,
        den |-> 10]

\* SELECT AVG(rating) FROM reviews WHERE restaurant_id = ?, then
\* "round(result[0], 1) if result[0] else 0"
get_average_rating(d, restaurant_id) ==
    LET a == Avg(ReviewsOf(d.reviews, {restaurant_id}))
    IN IF a = NullAvg \/ a.num = 0 THEN ZeroAvg ELSE Round1(a)

RECURSIVE OrderByIdDesc(_, _)
OrderByIdDesc(d, rows) ==
    IF rows = {} THEN <<>>
    ELSE LET r == CHOOSE x \in rows : \A y \in rows : y.id <= x.id
         IN <<AggregateRow(d, r)>> \o OrderByIdDesc(d, rows \ {r})

fetch_all_restaurants(d) == OrderByIdDesc(d, d.restaurants)

search_restaurants(d, area, cuisine) ==
    OrderByIdDesc(d, {r \in d.restaurants : Where(r, area, cuisine)})

\* the rows of a result
Rows(result) == {result[i] : i \in 1..Len(result)}

----------------------------------------------------------------------------
(* db_utils.py: every call opens its own sqlite3 connection, which leaves   *)
(* PRAGMA foreign_keys at its default, and closes it in finally            *)

\* connect_db: sqlite3.connect(DATABASE_NAME) and nothing else
sqlite_foreign_keys == FALSE

sqlite_add_restaurant(d, title, cuisines, area, google_map_link, added_by, picture) ==
    IF InsertRestaurantOk(title)
    THEN [db |-> InsertRestaurant(d, title, cuisines, area, google_map_link,
                                  added_by, picture),
          ret |-> AutoIncrement(d)]
    ELSE [db |-> d, ret |-> NoneInt]

sqlite_add_review(d, restaurant_id, reviewer_name, rating, comment, fk) ==
    IF InsertReviewOk(d, restaurant_id, reviewer_name, rating, fk)
    THEN [db |-> InsertReview(d, restaurant_id, reviewer_name, rating, comment),
          ret |-> TRUE]
    ELSE [db |-> d, ret |-> FALSE]

sqlite_delete_restaurant(d, restaurant_id, fk) ==
    [db |-> DeleteRestaurantRow(d, restaurant_id, fk), ret |-> TRUE]

sqlite_add_user(d, name) ==
    IF InsertUserOk(d, name)
    THEN [db |-> InsertUser(d, name), ret |-> TRUE]
    ELSE [db |-> d, ret |-> FALSE]

sqlite_delete_user(d, name) ==
    [db |-> DeleteUserRow(d, name), ret |-> TRUE]

\* database.py, run as a script: nothing is caught, commit ends it
setup_database(d) ==
    LET r == InsertDefaultUsers(CreateTables(d), default_users)
    IN IF r.raised THEN [db |-> d, raised |-> TRUE, committed |-> FALSE]
       ELSE [db |-> r.db, raised |-> FALSE, committed |-> TRUE]

----------------------------------------------------------------------------
(* turso_db_utils.py: one cached libsql connection shared by every call.    *)
(* A statement that violates a constraint raises in execute; commit and     *)
(* sync may raise on their own (see Faults).                                *)

\* get_turso_connection under @st.cache_resource: the first call's return
\* value, a connection or None, is stored and handed to every later call
get_turso_connection(c, has_secrets, reachable) ==
    IF c # "empty" THEN c
    ELSE IF ~has_secrets THEN "None"
    ELSE IF reachable THEN "conn"
    ELSE "None"

connect_db(c, has_secrets, reachable) ==
    get_turso_connection(c, has_secrets, reachable)

\* a test of the connection that never finds it missing
not_conn_never(conn) == FALSE

\* "if not conn:"
not_conn(conn) == conn # "conn"

\* the result of a call that returned before or without changing the store
NoWrite(d, ret) ==
    [db |-> d, ret |-> ret, committed |-> FALSE, synced |-> FALSE]

turso_add_restaurant(d, conn, title, cuisines, area, google_map_link, added_by, picture, fault) ==
    IF conn # "conn" THEN NoWrite(d, NoneInt)
    ELSE IF ~InsertRestaurantOk(title) THEN NoWrite(d, NoneInt)
    ELSE IF fault = "commit" THEN NoWrite(d, NoneInt)
    ELSE LET restaurant_id == AutoIncrement(d)
             d2 == InsertRestaurant(d, title, cuisines, area, google_map_link,
                                    added_by, picture)
         IN IF fault = "sync"
            THEN [db |-> d2, ret |-> NoneInt, committed |-> TRUE, synced |-> FALSE]
            ELSE IF restaurant_id > 0
            THEN [db |-> d2, ret |-> restaurant_id, committed |-> TRUE, synced |-> TRUE]
            ELSE [db |-> d2, ret |-> NoneInt, committed |-> TRUE, synced |-> TRUE]

turso_add_review(d, conn, restaurant_id, reviewer_name, rating, comment, fk, fault) ==
    IF conn # "conn" THEN NoWrite(d, FALSE)
    ELSE IF ~InsertReviewOk(d, restaurant_id, reviewer_name, rating, fk)
    THEN NoWrite(d, FALSE)
    ELSE IF fault = "commit" THEN NoWrite(d, FALSE)
    ELSE LET d2 == InsertReview(d, restaurant_id, reviewer_name, rating, comment)
         IN IF fault = "sync"
            THEN [db |-> d2, ret |-> FALSE, committed |-> TRUE, synced |-> FALSE]
            ELSE [db |-> d2, ret |-> TRUE, committed |-> TRUE, synced |-> TRUE]

\* delete_restaurant commits and returns True; it never calls conn.sync()
turso_delete_restaurant(d, conn, restaurant_id, fk, fault) ==
    IF conn # "conn" THEN NoWrite(d, FALSE)
    ELSE IF fault = "commit" THEN NoWrite(d, FALSE)
    ELSE [db |-> DeleteRestaurantRow(d, restaurant_id, fk), ret |-> TRUE,
          committed |-> TRUE, synced |-> FALSE]

\* get_all_users is a plain function (its @st.cache_data line is commented
\* out), so get_all_users.clear() raises AttributeError
get_all_users_clear_raises == TRUE

\* add_user: execute, commit, get_all_users.clear(), return True; the
\* AttributeError of clear() lands in "except Exception" after the commit
turso_add_user(d, conn, name, fault) ==
    IF conn # "conn" THEN NoWrite(d, FALSE)
    ELSE IF ~InsertUserOk(d, name) THEN NoWrite(d, FALSE)
    ELSE IF fault = "commit" THEN NoWrite(d, FALSE)
    ELSE [db |-> InsertUser(d, name), ret |-> ~get_all_users_clear_raises,
          committed |-> TRUE, synced |-> FALSE]

turso_delete_user(d, conn, name, fault) ==
    IF conn # "conn" THEN NoWrite(d, FALSE)
    ELSE IF fault = "commit" THEN NoWrite(d, FALSE)
    ELSE [db |-> DeleteUserRow(d, name), ret |-> ~get_all_users_clear_raises,
          committed |-> TRUE, synced |-> FALSE]

\* turso_database.py, run as a script: it opens a connection of its own,
\* catches every exception, commits without sync and closes the connection
setup_database_on_turso(d, reachable, fault) ==
    IF ~reachable THEN [db |-> d, raised |-> FALSE, committed |-> FALSE]
    ELSE LET r == InsertDefaultUsers(CreateTables(d), default_users)
         IN IF r.raised \/ fault = "commit"
            THEN [db |-> d, raised |-> FALSE, committed |-> FALSE]
            ELSE [db |-> r.db, raised |-> FALSE, committed |-> TRUE]

\* a cache whose lookups never find the entry
read_result_misses(c) == FALSE

\* st.cache_resource: a read of the cache finds an entry
read_result(c) == c # "empty"

Callers == 1..NumCallers

\* no thread is inside connect_db
NoCallers ==
    /\ pc = [c \in Callers |-> "idle"]
    /\ compute_value_lock = 0
    /\ received = [c \in Callers |-> "nothing"]
    /\ connects = 0

----------------------------------------------------------------------------
(* main.py, Add Restaurant page: the form's submit handler *)

\* ", ".join(cuisines) for the selections the model offers
cuisine_str(cuisines) ==
    IF cuisines = <<>> THEN ""
    ELSE IF Len(cuisines) = 1 THEN cuisines[1]
    ELSE "Indian, Thai"

\* attaches the review to the newest id the counter held before the insert
add_restaurant_page_stale_id(d, conn, title, cuisines, area, google_map_link, added_by, picture, rating, comments, fk, fault1, fault2) ==
    LET a == turso_add_restaurant(d, conn, title, cuisine_str(cuisines), area,
                                  google_map_link, added_by, picture, fault1)
        wanted == a.ret # NoneInt /\ a.ret # 0 /\ comments # ""
        v == IF wanted
             THEN turso_add_review(a.db, conn, d.seq_restaurants, added_by, rating,
                                   comments, fk, fault2)
             ELSE NoWrite(a.db, FALSE)
    IN [db |-> v.db, ret |-> a.ret,
        committed |-> a.committed, synced |-> a.synced,
        review_attempted |-> wanted, review_ret |-> v.ret]

\* the handler attempts the review whenever the page got here
first_review_wanted_always(restaurant_id, comments) == TRUE

\* "if restaurant_id:" then "if comments:"
first_review_wanted(restaurant_id, comments) ==
    restaurant_id # NoneInt /\ restaurant_id # 0 /\ comments # ""

\* what the handler does once the required fields are filled in:
\* add_restaurant, then add_review against the returned id.  The call passes
\* price_per_person as a seventh argument; add_restaurant declares six
\* parameters and inserts six columns, which are the ones passed on here
add_restaurant_page(d, conn, title, cuisines, area, google_map_link, added_by, picture, rating, comments, fk, fault1, fault2) ==
    LET a == turso_add_restaurant(d, conn, title, cuisine_str(cuisines), area,
                                  google_map_link, added_by, picture, fault1)
        wanted == first_review_wanted(a.ret, comments)
        v == IF wanted
             THEN turso_add_review(a.db, conn, a.ret, added_by, rating, comments,
                                   fk, fault2)
             ELSE NoWrite(a.db, FALSE)
    IN [db |-> v.db, ret |-> a.ret,
        committed |-> a.committed, synced |-> a.synced,
        review_attempted |-> wanted, review_ret |-> v.ret]

----------------------------------------------------------------------------
(* State machine *)

EmptyDb ==
    [restaurants |-> {}, reviews |-> EmptyBag, users |-> SetToBag(default_users),
     seq_restaurants |-> 0, tables |-> TRUE]

\* the state after the schema script ran on an empty store.  Neither
\* connect_db switches foreign keys on: sqlite3 leaves them off; for the
\* libsql connection the source does not say, so both settings are possible
Init ==
    /\ backend \in {"sqlite", "turso"}
    /\ foreign_keys \in (IF backend = "sqlite" THEN {sqlite_foreign_keys} ELSE BOOLEAN)
    /\ secrets \in (IF backend = "sqlite" THEN {TRUE} ELSE BOOLEAN)
    /\ cache = "empty"
    /\ db = EmptyDb
    /\ last = [op |-> "init"]
    /\ NoCallers

\* the AUTOINCREMENT counter and the reviews table stay within the bounds
WithinBounds(d) ==
    d.seq_restaurants <= MaxRestaurants /\ BagCardinality(d.reviews) <= MaxReviews

\* the option the selectbox of user names hands back
SelectedUser(d) ==
    IF d.users = EmptyBag THEN NoneStr ELSE CHOOSE u \in BagToSet(d.users) : TRUE

\* libsql.connect is tried only while nothing is cached
Reachability(c) == IF c = "empty" THEN BOOLEAN ELSE {TRUE}

SqliteAddRestaurant ==
    /\ backend = "sqlite"
    /\ \E title \in Titles :
         LET r == sqlite_add_restaurant(db, title, "Indian, Thai", "Indiranagar",
                                        "https://maps/x", SelectedUser(db), NoneStr)
         IN /\ WithinBounds(r.db)
            /\ db' = r.db
            /\ last' = [op |-> "add_restaurant", ret |-> r.ret,
                        committed |-> r.ret # NoneInt, synced |-> FALSE]
    /\ UNCHANGED <<threads, backend, foreign_keys, secrets, cache>>

SqliteAddReview ==
    /\ backend = "sqlite"
    /\ \E restaurant_id \in RestaurantIds, rating \in Ratings :
         LET r == sqlite_add_review(db, restaurant_id, "Raj", rating, "Great",
                                    foreign_keys)
         IN /\ WithinBounds(r.db)
            /\ db' = r.db
            /\ last' = [op |-> "add_review", restaurant_id |-> restaurant_id,
                        rating |-> rating, ret |-> r.ret,
                        committed |-> r.ret, synced |-> FALSE]
    /\ UNCHANGED <<threads, backend, foreign_keys, secrets, cache>>

SqliteDeleteRestaurant ==
    /\ backend = "sqlite"
    /\ \E restaurant_id \in RestaurantIds :
         LET r == sqlite_delete_restaurant(db, restaurant_id, foreign_keys)
         IN /\ db' = r.db
            /\ last' = [op |-> "delete_restaurant", restaurant_id |-> restaurant_id,
                        ret |-> r.ret, committed |-> TRUE, synced |-> FALSE]
    /\ UNCHANGED <<threads, backend, foreign_keys, secrets, cache>>

SqliteAddUser ==
    /\ backend = "sqlite"
    /\ \E name \in UserNames :
         LET r == sqlite_add_user(db, name)
         IN /\ db' = r.db
            /\ last' = [op |-> "add_user", name |-> name, ret |-> r.ret,
                        committed |-> r.ret, synced |-> FALSE]
    /\ UNCHANGED <<threads, backend, foreign_keys, secrets, cache>>

SqliteDeleteUser ==
    /\ backend = "sqlite"
    /\ \E name \in UserNames :
         LET r == sqlite_delete_user(db, name)
         IN /\ db' = r.db
            /\ last' = [op |-> "delete_user", name |-> name, ret |-> r.ret,
                        committed |-> TRUE, synced |-> FALSE]
    /\ UNCHANGED <<threads, backend, foreign_keys, secrets, cache>>

\* commit and sync are reached, and can fail, only after execute went through
FaultsAfter(executed) == IF executed THEN Faults ELSE {"none"}

TursoAddRestaurant ==
    /\ backend = "turso"
    /\ \E title \in Titles, reachable \in Reachability(cache) :
       \E fault \in FaultsAfter(InsertRestaurantOk(title)) :
         LET conn == connect_db(cache, secrets, reachable)
             r == turso_add_restaurant(db, conn, title, "Indian, Thai", "Indiranagar",
                                       "https://maps/x", SelectedUser(db), NoneStr,
                                       fault)
         IN /\ WithinBounds(r.db)
            /\ cache' = conn
            /\ db' = r.db
            /\ last' = [op |-> "add_restaurant", ret |-> r.ret,
                        committed |-> r.committed, synced |-> r.synced]
    /\ UNCHANGED <<threads, backend, foreign_keys, secrets>>

TursoAddReview ==
    /\ backend = "turso"
    /\ \E restaurant_id \in RestaurantIds, rating \in Ratings,
          reachable \in Reachability(cache) :
       \E fault \in FaultsAfter(InsertReviewOk(db, restaurant_id, "Raj", rating,
                                               foreign_keys)) :
         LET conn == connect_db(cache, secrets, reachable)
             r == turso_add_review(db, conn, restaurant_id, "Raj", rating, "Great",
                                   foreign_keys, fault)
         IN /\ WithinBounds(r.db)
            /\ cache' = conn
            /\ db' = r.db
            /\ last' = [op |-> "add_review", restaurant_id |-> restaurant_id,
                        rating |-> rating, ret |-> r.ret,
                        committed |-> r.committed, synced |-> r.synced]
    /\ UNCHANGED <<threads, backend, foreign_keys, secrets>>

TursoDeleteRestaurant ==
    /\ backend = "turso"
    /\ \E restaurant_id \in RestaurantIds, reachable \in Reachability(cache), fault \in FaultsNoSync :
         LET conn == connect_db(cache, secrets, reachable)
             r == turso_delete_restaurant(db, conn, restaurant_id, foreign_keys, fault)
         IN /\ cache' = conn
            /\ db' = r.db
            /\ last' = [op |-> "delete_restaurant", restaurant_id |-> restaurant_id,
                        ret |-> r.ret, committed |-> r.committed, synced |-> r.synced]
    /\ UNCHANGED <<threads, backend, foreign_keys, secrets>>

TursoAddUser ==
    /\ backend = "turso"
    /\ \E name \in UserNames, reachable \in Reachability(cache), fault \in FaultsNoSync :
         LET conn == connect_db(cache, secrets, reachable)
             r == turso_add_user(db, conn, name, fault)
         IN /\ cache' = conn
            /\ db' = r.db
            /\ last' = [op |-> "add_user", name |-> name, ret |-> r.ret,
                        committed |-> r.committed, synced |-> r.synced]
    /\ UNCHANGED <<threads, backend, foreign_keys, secrets>>

TursoDeleteUser ==
    /\ backend = "turso"
    /\ \E name \in UserNames, reachable \in Reachability(cache), fault \in FaultsNoSync :
         LET conn == connect_db(cache, secrets, reachable)
             r == turso_delete_user(db, conn, name, fault)
         IN /\ cache' = conn
            /\ db' = r.db
            /\ last' = [op |-> "delete_user", name |-> name, ret |-> r.ret,
                        committed |-> r.committed, synced |-> r.synced]
    /\ UNCHANGED <<threads, backend, foreign_keys, secrets>>

\* the fields the handler requires; a submit leaves one of them empty or none
RequiredFields == {"title", "area", "google_map_link", "cuisines"}

\* main.py imports the Turso module.  A submit with a required field left
\* empty shows an error and calls nothing
AddRestaurantPageIncomplete ==
    /\ backend = "turso"
    /\ \E empty \in RequiredFields :
         LET title == IF empty = "title" THEN "" ELSE "Spice Hub"
             area == IF empty = "area" THEN "" ELSE "Indiranagar"
             google_map_link == IF empty = "google_map_link" THEN ""
                                ELSE "https://maps/x"
             cuisines == IF empty = "cuisines" THEN <<>> ELSE <<"Indian", "Thai">>
         IN
         /\ ~(title # "" /\ area # "" /\ google_map_link # "" /\ cuisines # <<>>)
         /\ last' = [op |-> "add_restaurant_page", valid |-> FALSE,
                     comments |-> "", ret |-> NoneInt,
                     committed |-> FALSE, synced |-> FALSE,
                     review_attempted |-> FALSE, review_ret |-> FALSE]
    /\ UNCHANGED <<threads, backend, foreign_keys, secrets, cache, db>>

\* the number_input of the page: its default value
Prices == {500}

\* a submit with title, area, map link and cuisines all filled in
AddRestaurantPageSubmit ==
    /\ backend = "turso"
    /\ \E rating \in SliderRatings, comments \in Comments, price_per_person \in Prices,
          reachable \in Reachability(cache), fault1 \in Faults :
       \E fault2 \in (IF fault1 = "none" /\ comments # "" THEN Faults ELSE {"none"}) :
         LET conn == connect_db(cache, secrets, reachable)
             r == add_restaurant_page(db, conn, "Spice Hub", <<"Indian", "Thai">>,
                                      "Indiranagar", "https://maps/x",
                                      SelectedUser(db), NoneStr,
                                      rating, comments, foreign_keys, fault1, fault2)
         IN /\ WithinBounds(r.db)
            /\ cache' = conn
            /\ db' = r.db
            /\ last' = [op |-> "add_restaurant_page", valid |-> TRUE,
                        comments |-> comments, ret |-> r.ret,
                        committed |-> r.committed, synced |-> r.synced,
                        review_attempted |-> r.review_attempted,
                        review_ret |-> r.review_ret,
                        supplied |-> [title |-> "Spice Hub",
                                      cuisines |-> cuisine_str(<<"Indian", "Thai">>),
                                      area |-> "Indiranagar",
                                      google_map_link |-> "https://maps/x",
                                      added_by |-> SelectedUser(db),
                                      restaurant_picture |-> NoneStr,
                                      price_per_person |-> price_per_person]]
    /\ UNCHANGED <<threads, backend, foreign_keys, secrets>>

AddRestaurantPage == AddRestaurantPageIncomplete \/ AddRestaurantPageSubmit

Next ==
    \/ SqliteAddRestaurant
    \/ SqliteAddReview
    \/ SqliteDeleteRestaurant
    \/ SqliteAddUser
    \/ SqliteDeleteUser
    \/ TursoAddRestaurant
    \/ TursoAddReview
    \/ TursoDeleteRestaurant
    \/ TursoAddUser
    \/ TursoDeleteUser
    \/ AddRestaurantPage

Spec == Init /\ [][Next]_vars

----------------------------------------------------------------------------
(* Searching: restaurants whose area and cuisines are text the filters are  *)
(* matched against.  turso_db_utils.py issues the same two queries.         *)

\* stored areas (the column is nullable) and cuisines
Areas == {NoneText, <<"a", "B">>, <<"b">>}

CuisineTexts == {<<"a">>, <<"b">>}

\* what the caller passes as area and as cuisine
AreaFilters == {NoneText, <<>>, <<"b">>, <<"A">>, <<"%">>, <<"_">>}

CuisineFilters == {NoneText, <<>>, <<"a">>}

InitSearch ==
    /\ backend = "sqlite"
    /\ foreign_keys = sqlite_foreign_keys
    /\ secrets = TRUE
    /\ cache = "empty"
    /\ db = EmptyDb
    /\ last = [op |-> "init"]
    /\ NoCallers

SearchAddRestaurant ==
    /\ \E area \in Areas, cuisines \in CuisineTexts :
         LET r == sqlite_add_restaurant(db, "Spice Hub", cuisines, area,
                                        "https://maps/x", SelectedUser(db), NoneStr)
         IN /\ WithinBounds(r.db)
            /\ db' = r.db
            /\ last' = [op |-> "add_restaurant"]
    /\ UNCHANGED <<threads, backend, foreign_keys, secrets, cache>>

SearchAddReview ==
    /\ \E restaurant_id \in RestaurantIds :
         LET r == sqlite_add_review(db, restaurant_id, "Raj", 4, "Great", foreign_keys)
         IN /\ WithinBounds(r.db)
            /\ db' = r.db
            /\ last' = [op |-> "add_review"]
    /\ UNCHANGED <<threads, backend, foreign_keys, secrets, cache>>

SearchDeleteRestaurant ==
    /\ \E restaurant_id \in RestaurantIds :
         LET r == sqlite_delete_restaurant(db, restaurant_id, foreign_keys)
         IN /\ db' = r.db
            /\ last' = [op |-> "delete_restaurant"]
    /\ UNCHANGED <<threads, backend, foreign_keys, secrets, cache>>

SearchRestaurants ==
    /\ \E area \in AreaFilters, cuisine \in CuisineFilters :
         last' = [op |-> "search_restaurants", area |-> area, cuisine |-> cuisine,
                  result |-> search_restaurants(db, area, cuisine)]
    /\ UNCHANGED <<threads, backend, foreign_keys, secrets, cache, db>>

NextSearch ==
    \/ SearchAddRestaurant
    \/ SearchAddReview
    \/ SearchDeleteRestaurant
    \/ SearchRestaurants

SpecSearch == InitSearch /\ [][NextSearch]_vars

----------------------------------------------------------------------------
(* Users and the schema scripts: setup_database, add_user, delete_user *)

\* the names add_user and delete_user are called with
ManagedNames == {"Anish", "Raj", "Zoe"}

\* a store no script has touched yet
NoTables ==
    [restaurants |-> {}, reviews |-> EmptyBag, users |-> EmptyBag,
     seq_restaurants |-> 0, tables |-> FALSE]

\* a store in use: one restaurant with one review
StoreInUse ==
    InsertReview(InsertRestaurant(EmptyDb, "Spice Hub", "Indian, Thai", "Indiranagar",
                                  "https://maps/x", "Raj", NoneStr),
                 1, "Raj", 4, "Great")

InitUsers ==
    /\ backend \in {"sqlite", "turso"}
    /\ foreign_keys = sqlite_foreign_keys
    /\ secrets = TRUE
    /\ cache = "empty"
    /\ db \in {NoTables, StoreInUse}
    /\ last = [op |-> "init"]
    /\ NoCallers

\* the script ran right after a run of it that committed
Again == last.op = "setup_database" /\ last.committed

SqliteSetupDatabase ==
    /\ backend = "sqlite"
    /\ LET r == setup_database(db)
       IN /\ db' = r.db
          /\ last' = [op |-> "setup_database", raised |-> r.raised,
                      committed |-> r.committed, again |-> Again]
    /\ UNCHANGED <<threads, backend, foreign_keys, secrets, cache>>

TursoSetupDatabase ==
    /\ backend = "turso"
    /\ \E reachable \in BOOLEAN, fault \in FaultsNoSync :
         LET r == setup_database_on_turso(db, reachable, fault)
         IN /\ db' = r.db
            /\ last' = [op |-> "setup_database", raised |-> r.raised,
                        committed |-> r.committed, again |-> Again]
    /\ UNCHANGED <<threads, backend, foreign_keys, secrets, cache>>

UsersSqliteAddUser ==
    /\ backend = "sqlite"
    /\ db.tables
    /\ \E name \in ManagedNames :
         LET r == sqlite_add_user(db, name)
         IN /\ db' = r.db
            /\ last' = [op |-> "add_user", name |-> name, ret |-> r.ret,
                        committed |-> r.ret, synced |-> FALSE]
    /\ UNCHANGED <<threads, backend, foreign_keys, secrets, cache>>

UsersSqliteDeleteUser ==
    /\ backend = "sqlite"
    /\ db.tables
    /\ \E name \in ManagedNames :
         LET r == sqlite_delete_user(db, name)
         IN /\ db' = r.db
            /\ last' = [op |-> "delete_user", name |-> name, ret |-> r.ret,
                        committed |-> TRUE, synced |-> FALSE]
    /\ UNCHANGED <<threads, backend, foreign_keys, secrets, cache>>

UsersTursoAddUser ==
    /\ backend = "turso"
    /\ db.tables
    /\ \E name \in ManagedNames, reachable \in Reachability(cache), fault \in FaultsNoSync :
         LET conn == connect_db(cache, secrets, reachable)
             r == turso_add_user(db, conn, name, fault)
         IN /\ cache' = conn
            /\ db' = r.db
            /\ last' = [op |-> "add_user", name |-> name, ret |-> r.ret,
                        committed |-> r.committed, synced |-> r.synced]
    /\ UNCHANGED <<threads, backend, foreign_keys, secrets>>

UsersTursoDeleteUser ==
    /\ backend = "turso"
    /\ db.tables
    /\ \E name \in ManagedNames, reachable \in Reachability(cache), fault \in FaultsNoSync :
         LET conn == connect_db(cache, secrets, reachable)
             r == turso_delete_user(db, conn, name, fault)
         IN /\ cache' = conn
            /\ db' = r.db
            /\ last' = [op |-> "delete_user", name |-> name, ret |-> r.ret,
                        committed |-> r.committed, synced |-> r.synced]
    /\ UNCHANGED <<threads, backend, foreign_keys, secrets>>

NextUsers ==
    \/ SqliteSetupDatabase
    \/ TursoSetupDatabase
    \/ UsersSqliteAddUser
    \/ UsersSqliteDeleteUser
    \/ UsersTursoAddUser
    \/ UsersTursoDeleteUser

SpecUsers == InitUsers /\ [][NextUsers]_vars

----------------------------------------------------------------------------
(* Concurrent callers of connect_db.  @st.cache_resource wraps               *)
(* get_turso_connection: a call looks the entry up without a lock; on a miss *)
(* it takes the cache's lock, looks again, and only then runs the function   *)
(* and stores what it returned.                                              *)

InitConnect ==
    /\ backend = "turso"
    /\ foreign_keys \in BOOLEAN
    /\ secrets \in BOOLEAN
    /\ cache = "empty"
    /\ db = EmptyDb
    /\ last = [op |-> "init"]
    /\ NoCallers

\* connect_db(): the lookup without the lock
CallConnectDb(c) ==
    /\ pc[c] \in {"idle", "done"}
    /\ IF read_result(cache)
       THEN /\ received' = [received EXCEPT ![c] = cache]
            /\ pc' = [pc EXCEPT ![c] = "done"]
       ELSE /\ received' = [received EXCEPT ![c] = "nothing"]
            /\ pc' = [pc EXCEPT ![c] = "miss"]
    /\ UNCHANGED <<backend, foreign_keys, secrets, cache, db, last,
                   compute_value_lock, connects>>

\* "with cache.compute_value_lock:"
AcquireComputeValueLock(c) ==
    /\ pc[c] = "miss"
    /\ compute_value_lock = 0
    /\ compute_value_lock' = c
    /\ pc' = [pc EXCEPT ![c] = "locked"]
    /\ UNCHANGED <<backend, foreign_keys, secrets, cache, db, last, received, connects>>

\* the lookup under the lock: another thread may have stored the entry
ReadResultUnderLock(c) ==
    /\ pc[c] = "locked"
    /\ IF read_result(cache)
       THEN /\ received' = [received EXCEPT ![c] = cache]
            /\ pc' = [pc EXCEPT ![c] = "done"]
            /\ compute_value_lock' = 0
       ELSE /\ pc' = [pc EXCEPT ![c] = "compute"]
            /\ UNCHANGED <<received, compute_value_lock>>
    /\ UNCHANGED <<backend, foreign_keys, secrets, cache, db, last, connects>>

\* the body of get_turso_connection runs: libsql.connect or None
ComputeValue(c) ==
    /\ pc[c] = "compute"
    /\ \E reachable \in BOOLEAN :
         LET conn == get_turso_connection("empty", secrets, reachable)
         IN /\ received' = [received EXCEPT ![c] = conn]
            /\ connects' = IF conn = "conn" THEN connects + 1 ELSE connects
    /\ pc' = [pc EXCEPT ![c] = "write"]
    /\ UNCHANGED <<backend, foreign_keys, secrets, cache, db, last, compute_value_lock>>

\* the returned value is stored, the lock released, the value handed out
WriteResult(c) ==
    /\ pc[c] = "write"
    /\ cache' = received[c]
    /\ compute_value_lock' = 0
    /\ pc' = [pc EXCEPT ![c] = "done"]
    /\ UNCHANGED <<backend, foreign_keys, secrets, db, last, received, connects>>

NextConnect ==
    \E c \in Callers :
        \/ CallConnectDb(c)
        \/ AcquireComputeValueLock(c)
        \/ ReadResultUnderLock(c)
        \/ ComputeValue(c)
        \/ WriteResult(c)

SpecConnect == InitConnect /\ [][NextConnect]_vars

----------------------------------------------------------------------------
(* Average ratings: reviews with ratings whose mean has more than one       *)
(* decimal.  turso_db_utils.py runs the same query and the same rounding.   *)

\* ratings passed to add_review: three that the CHECK accepts, and None
RatingValues == {1, 2, 5, NoneInt}

InitRatings ==
    /\ backend = "sqlite"
    /\ foreign_keys = sqlite_foreign_keys
    /\ secrets = TRUE
    /\ cache = "empty"
    /\ db = EmptyDb
    /\ last = [op |-> "init"]
    /\ NoCallers

RatingsAddRestaurant ==
    /\ LET r == sqlite_add_restaurant(db, "Spice Hub", "Indian, Thai", "Indiranagar",
                                      "https://maps/x", SelectedUser(db), NoneStr)
       IN /\ r.db.seq_restaurants <= MaxRestaurants
          /\ db' = r.db
          /\ last' = [op |-> "add_restaurant"]
    /\ UNCHANGED <<threads, backend, foreign_keys, secrets, cache>>

RatingsAddReview ==
    /\ \E restaurant_id \in RestaurantIds, rating \in RatingValues :
         LET r == sqlite_add_review(db, restaurant_id, "Raj", rating, "Great",
                                    foreign_keys)
         IN /\ BagCardinality(r.db.reviews) <= MaxRatings
            /\ db' = r.db
            /\ last' = [op |-> "add_review"]
    /\ UNCHANGED <<threads, backend, foreign_keys, secrets, cache>>

GetAverageRating ==
    /\ \E restaurant_id \in RestaurantIds :
         last' = [op |-> "get_average_rating", restaurant_id |-> restaurant_id,
                  ret |-> get_average_rating(db, restaurant_id)]
    /\ UNCHANGED <<threads, backend, foreign_keys, secrets, cache, db>>

NextRatings ==
    \/ RatingsAddRestaurant
    \/ RatingsAddReview
    \/ GetAverageRating

SpecRatings == InitRatings /\ [][NextRatings]_vars

----------------------------------------------------------------------------
(* Restaurant ids: add_restaurant and delete_restaurant, with the ids of     *)
(* all rows ever stored kept in last.used                                   *)

InitIds ==
    /\ backend \in {"sqlite", "turso"}
    /\ foreign_keys = sqlite_foreign_keys
    /\ secrets = TRUE
    /\ cache = "empty"
    /\ db = EmptyDb
    /\ last = [op |-> "init", used |-> {}]
    /\ NoCallers

IdsAddRestaurant ==
    /\ \E title \in Titles, reachable \in Reachability(cache), fault \in Faults :
         LET conn == connect_db(cache, secrets, reachable)
             r == IF backend = "sqlite"
                  THEN sqlite_add_restaurant(db, title, "Indian, Thai", "Indiranagar",
                                             "https://maps/x", SelectedUser(db), NoneStr)
                  ELSE turso_add_restaurant(db, conn, title, "Indian, Thai",
                                            "Indiranagar", "https://maps/x",
                                            SelectedUser(db), NoneStr, fault)
         IN /\ r.db.seq_restaurants <= MaxIds
            /\ cache' = IF backend = "sqlite" THEN cache ELSE conn
            /\ db' = r.db
            /\ last' = [op |-> "add_restaurant", ret |-> r.ret,
                        used |-> last.used \cup {x.id : x \in r.db.restaurants}]
    /\ UNCHANGED <<threads, backend, foreign_keys, secrets>>

IdsDeleteRestaurant ==
    /\ \E restaurant_id \in 1..MaxIds, reachable \in Reachability(cache), fault \in FaultsNoSync :
         LET conn == connect_db(cache, secrets, reachable)
             r == IF backend = "sqlite"
                  THEN sqlite_delete_restaurant(db, restaurant_id, foreign_keys)
                  ELSE turso_delete_restaurant(db, conn, restaurant_id, foreign_keys,
                                               fault)
         IN /\ cache' = IF backend = "sqlite" THEN cache ELSE conn
            /\ db' = r.db
            /\ last' = [op |-> "delete_restaurant", ret |-> r.ret, used |-> last.used]
    /\ UNCHANGED <<threads, backend, foreign_keys, secrets>>

NextIds ==
    \/ IdsAddRestaurant
    \/ IdsDeleteRestaurant

SpecIds == InitIds /\ [][NextIds]_vars

----------------------------------------------------------------------------
(* The Turso module on a store that already holds rows, with and without a  *)
(* connection: its five writes and its seven reads                          *)

ReadOps ==
    {"get_restaurant_id_by_title", "get_reviews_for_restaurant",
     "get_average_rating", "fetch_all_restaurants", "search_restaurants",
     "get_all_users", "get_user_count"}

\* what a read returns first thing when connect_db gave None
EmptyResult(read) ==
    CASE read = "get_restaurant_id_by_title" -> NoneInt
      [] read = "get_reviews_for_restaurant" -> <<>>
      [] read = "get_average_rating" -> ZeroAvg
      [] read = "fetch_all_restaurants" -> <<>>
      [] read = "search_restaurants" -> <<>>
      [] read = "get_all_users" -> <<>>
      [] read = "get_user_count" -> 0

\* SELECT id FROM restaurants WHERE title = ?, fetchone: a matching id, or
\* None when no row matches
get_restaurant_id_by_title(d, title) ==
    IF \A r \in d.restaurants : r.title # title THEN {NoneInt}
    ELSE {r.id : r \in {x \in d.restaurants : x.title = title}}

\* the values a read of the Turso module can return with a connection
TursoReadWithConnection(d, read, restaurant_id) ==
    CASE read = "get_restaurant_id_by_title" -> get_restaurant_id_by_title(d, "Spice Hub")
      [] read = "get_reviews_for_restaurant" -> {get_reviews_for_restaurant(d, restaurant_id)}
      [] read = "get_average_rating" -> {get_average_rating(d, restaurant_id)}
      [] read = "fetch_all_restaurants" -> {fetch_all_restaurants(d)}
      [] read = "search_restaurants" -> {search_restaurants(d, NoneText, NoneText)}
      [] read = "get_all_users" -> {get_all_users(d)}
      [] read = "get_user_count" -> {get_user_count(d)}

\* every read starts with "if not conn: return <empty>"
TursoReadResults(d, conn, read, restaurant_id) ==
    IF not_conn(conn) THEN {EmptyResult(read)}
    ELSE TursoReadWithConnection(d, read, restaurant_id)

InitOutage ==
    /\ backend = "turso"
    /\ foreign_keys \in BOOLEAN
    /\ secrets \in BOOLEAN
    /\ cache = "empty"
    /\ db = StoreInUse
    /\ last = [op |-> "init"]
    /\ NoCallers

TursoRead ==
    /\ backend = "turso"
    /\ \E read \in ReadOps, restaurant_id \in RestaurantIds, reachable \in Reachability(cache) :
         LET conn == connect_db(cache, secrets, reachable)
         IN \E ret \in TursoReadResults(db, conn, read, restaurant_id) :
              /\ cache' = conn
              /\ last' = [op |-> read, ret |-> ret]
    /\ UNCHANGED <<threads, backend, foreign_keys, secrets, db>>

NextOutage ==
    \/ TursoAddRestaurant
    \/ TursoAddReview
    \/ TursoDeleteRestaurant
    \/ TursoAddUser
    \/ TursoDeleteUser
    \/ TursoRead

SpecOutage == InitOutage /\ [][NextOutage]_vars

----------------------------------------------------------------------------
(* Properties *)

Ids(d) == {r.id : r \in d.restaurants}

MutatingOps ==
    {"add_restaurant", "add_review", "delete_restaurant", "add_user", "delete_user"}

\* the call recorded in "l" reported success
Succeeded(l) ==
    IF l.op = "add_restaurant" THEN l.ret # NoneInt ELSE l.ret = TRUE

\* C1: after delete_restaurant(id) returns success for an existing restaurant
\* that has reviews, no review with restaurant_id = id remains and id is in
\* neither fetch_all_restaurants nor search_restaurants
C1_DeleteRemovesReviews ==
    [][(/\ last'.op = "delete_restaurant"
        /\ last'.ret = TRUE
        /\ last'.restaurant_id \in Ids(db)
        /\ get_reviews_for_restaurant(db, last'.restaurant_id) # EmptyBag)
       => /\ get_reviews_for_restaurant(db', last'.restaurant_id) = EmptyBag
          /\ last'.restaurant_id \notin fetch_all_restaurants_ids(db')
          /\ last'.restaurant_id \notin search_restaurants_ids(db')]_vars

\* C2: in every reachable state every stored review's restaurant_id is the id
\* of a restaurant that currently exists
C2_NoOrphanReview ==
    \A v \in BagToSet(db.reviews) : v.restaurant_id \in Ids(db)

\* C3: add_review with a restaurant_id that matches no existing restaurant
\* returns failure and adds no review row
C3_ReviewOfMissingRestaurantFails ==
    [][(last'.op = "add_review" /\ last'.restaurant_id \notin Ids(db))
       => (last'.ret = FALSE /\ db'.reviews = db.reviews)]_vars

\* C4: add_review with an integer rating outside 1..5 returns False and
\* leaves the set of review rows as it was
C4_RatingOutOfRangeRejected ==
    [][(/\ last'.op = "add_review"
        /\ last'.rating # NoneInt
        /\ (last'.rating < 1 \/ last'.rating > 5))
       => (last'.ret = FALSE /\ db'.reviews = db.reviews)]_vars

\* a failed add_review(rating = 6) with a review already stored
C4_Witness ==
    /\ last.op = "add_review"
    /\ last.rating = 6
    /\ last.ret = FALSE
    /\ db.reviews # EmptyBag

\* C5: in every reachable state every stored review has an integer rating
\* between 1 and 5, whatever rating a caller passed, None included
C5_StoredRatingInRange ==
    \A v \in BagToSet(db.reviews) : v.rating \in 1..5

\* the rows a step added to the restaurants table
Gained(before, after) == after \ before

\* the step added exactly one restaurant and one review, the review pointing
\* at the id the page got from add_restaurant
OneRestaurantOneReview(d, d2, restaurant_id) ==
    /\ d.restaurants \subseteq d2.restaurants
    /\ Cardinality(Gained(d.restaurants, d2.restaurants)) = 1
    /\ \A r \in Gained(d.restaurants, d2.restaurants) : r.id = restaurant_id
    /\ \E v \in BagToSet(d2.reviews) :
          /\ v.restaurant_id = restaurant_id
          /\ d2.reviews = d.reviews (+) SetToBag({v})

C7_FailedInsertAddsNothing ==
    [][(/\ last'.op \in {"add_restaurant", "add_restaurant_page"}
        /\ (last'.op = "add_restaurant_page" => last'.valid)
        /\ last'.ret = NoneInt)
       => (db'.restaurants = db.restaurants /\ db'.reviews = db.reviews)]_vars

\* C8: the page attempts add_review only after add_restaurant returned a
\* positive id, which it does only after commit and sync; it never attempts
\* it when add_restaurant returned None
C8_ReviewOnlyAfterDurableId ==
    last.op = "add_restaurant_page"
    => /\ (last.review_attempted
           => (last.ret > 0 /\ last.committed /\ last.synced))
       /\ (last.ret = NoneInt => ~last.review_attempted)

\* the page attempted the first review
C8_Witness ==
    /\ last.op = "add_restaurant_page"
    /\ last.review_attempted
    /\ last.ret > 0

\* C9: a mutating operation of the Turso-backed store reports success only
\* after both the commit and conn.sync() completed
C9_SuccessOnlyAfterSync ==
    (backend = "turso" /\ last.op \in MutatingOps /\ Succeeded(last))
    => (last.committed /\ last.synced)

\* C10: whenever add_review, add_user, delete_user or delete_restaurant
\* returns False the three tables are as they were before the call
C10_FailureMeansNoWrite ==
    [][(/\ last'.op \in {"add_review", "add_user", "delete_user", "delete_restaurant"}
        /\ last'.ret = FALSE)
       => (/\ db'.users = db.users
           /\ db'.restaurants = db.restaurants
           /\ db'.reviews = db.reviews)]_vars


\* the connection a read obtains now: the sqlite3 one, or what connect_db returns
ReadConns ==
    IF backend = "sqlite" THEN {"conn"}
    ELSE {connect_db(cache, secrets, reachable) : reachable \in Reachability(cache)}

\* a read of the Turso module returns an empty frame when connect_db gave None
ReadResult(conn, result) == IF conn = "conn" THEN result ELSE <<>>

\* C11: every restaurant that has zero reviews has a row in
\* fetch_all_restaurants and in search_restaurants, with avg_rating = 0 and
\* review_count = 0
C11_ZeroReviewsListedAsZero ==
    \A r \in db.restaurants, conn \in ReadConns :
        get_reviews_for_restaurant(db, r.id) = EmptyBag
        => \A result \in {ReadResult(conn, fetch_all_restaurants(db)),
                          ReadResult(conn, search_restaurants(db, NoneText, NoneText))} :
             \E row \in Rows(result) :
                /\ row.id = r.id
                /\ row.avg_rating = ZeroAvg
                /\ row.review_count = 0

\* a restaurant without reviews is stored next to one that has reviews
C11_Witness ==
    /\ \E r \in db.restaurants : get_reviews_for_restaurant(db, r.id) # EmptyBag
    /\ db.reviews # EmptyBag
    /\ \E r \in db.restaurants : get_reviews_for_restaurant(db, r.id) = EmptyBag

\* C12: every listed restaurant with n >= 1 stored reviews has
\* review_count = n and avg_rating * n = the sum of those reviews' ratings
C12_AverageIsExactMean ==
    \A row \in Rows(fetch_all_restaurants(db))
               \cup Rows(search_restaurants(db, NoneText, NoneText)) :
        LET group == get_reviews_for_restaurant(db, row.id)
            n == BagCardinality(group)
        IN n >= 1
           => /\ row.review_count = n
              /\ row.avg_rating.num * n
                 = SumRatings(BagToSet(group), group) * row.avg_rating.den


\* text contains s as a literal substring, letter case ignored
Contains(text, s) ==
    /\ text # NoneText
    /\ \E i \in 0..(Len(text) - Len(s)) :
          \A j \in 1..Len(s) : Lower(text[i + j]) = Lower(s[j])

\* C13: for every non-empty area filter s, '%' and '_' included,
\* search_restaurants(s, None) returns only restaurants whose area contains s
\* as a literal substring, case-insensitively
C13_AreaFilterIsLiteralSubstring ==
    (last.op = "search_restaurants" /\ last.area \notin {NoneText, <<>>}
        /\ last.cuisine = NoneText)
    => \A row \in Rows(last.result) : Contains(row.area, last.area)

\* C14: search_restaurants with both filters absent (None or "") returns
\* exactly the rows of fetch_all_restaurants, ordered by id descending
C14_NoFilterIsFetchAll ==
    (last.op = "search_restaurants" /\ last.area \in {NoneText, <<>>}
        /\ last.cuisine \in {NoneText, <<>>})
    => /\ last.result = fetch_all_restaurants(db)
       /\ Rows(last.result) = {AggregateRow(db, r) : r \in db.restaurants}
       /\ \A i, j \in 1..Len(last.result) :
             i < j => last.result[i].id > last.result[j].id

\* an empty-string filter was passed while a restaurant with a NULL area and
\* another restaurant are stored
C14_Witness ==
    /\ last.op = "search_restaurants"
    /\ last.area = <<>>
    /\ last.cuisine \in {NoneText, <<>>}
    /\ Len(last.result) >= 2
    /\ \E r \in db.restaurants : r.area = NoneText

\* C15: with both filters supplied the result is exactly the intersection of
\* the two single-filter results, and each returned row carries the
\* avg_rating and review_count it has in the unfiltered listing
C15_BothFiltersIntersect ==
    (last.op = "search_restaurants" /\ last.area \notin {NoneText, <<>>}
        /\ last.cuisine \notin {NoneText, <<>>})
    => /\ Rows(last.result)
          = Rows(search_restaurants(db, last.area, NoneText))
            \cap Rows(search_restaurants(db, NoneText, last.cuisine))
       /\ Rows(last.result) \subseteq Rows(fetch_all_restaurants(db))
       /\ Len(last.result) = Cardinality(Rows(last.result))

\* both filters were passed; one restaurant with reviews is returned, another
\* one matches the area filter alone
C15_Witness ==
    /\ last.op = "search_restaurants"
    /\ last.area \notin {NoneText, <<>>}
    /\ last.cuisine \notin {NoneText, <<>>}
    /\ \E row \in Rows(last.result) : row.review_count >= 1
    /\ Rows(search_restaurants(db, last.area, NoneText)) # Rows(last.result)


\* how often name occurs in what get_all_users returns
Occurrences(result, name) == Cardinality({i \in DOMAIN result : result[i] = name})

\* C16: after any sequence of setup_database, add_user and delete_user no two
\* stored users share a name; add_user(name) for a name already present
\* returns failure, and get_all_users contains that name exactly once
C16_UserNamesUnique ==
    /\ [](\A name \in BagToSet(db.users) : CopiesIn(name, db.users) = 1)
    /\ [][(last'.op = "add_user" /\ last'.name \in BagToSet(db.users))
            => /\ last'.ret = FALSE
               /\ db' = db
               /\ Occurrences(get_all_users(db'), last'.name) = 1]_vars

\* add_user("Raj") just failed on the sqlite3 store, where only a duplicate
\* name makes it fail
C16_Witness ==
    /\ backend = "sqlite"
    /\ last.op = "add_user"
    /\ last.ret = FALSE
    /\ last.name = "Raj"
    /\ Occurrences(get_all_users(db), "Raj") = 1

\* C20: running the schema script twice in a row raises no error and leaves
\* the tables and rows of one run; restaurants, reviews and users that
\* already exist are preserved
C20_SetupIdempotent ==
    [][last'.op = "setup_database"
        => /\ ~last'.raised
           /\ db'.restaurants = db.restaurants
           /\ db'.reviews = db.reviews
           /\ db'.seq_restaurants = db.seq_restaurants
           /\ \A name \in BagToSet(db.users) :
                 CopiesIn(name, db'.users) = CopiesIn(name, db.users)
           /\ (last'.again => db' = db)
           /\ LET once == setup_database(db)
              IN setup_database(once.db) = once
           /\ LET once == setup_database_on_turso(db, TRUE, "none")
              IN setup_database_on_turso(once.db, TRUE, "none") = once]_vars

\* the script committed a second time in a row on a store that holds a
\* restaurant, a review and a user added by add_user
C20_Witness ==
    /\ last.op = "setup_database"
    /\ last.again
    /\ last.committed
    /\ db.restaurants # {}
    /\ db.reviews # EmptyBag
    /\ "Zoe" \in BagToSet(db.users)


C18_Original ==
    [][(last'.op = "delete_restaurant" /\ last'.restaurant_id \notin Ids(db))
        => (last'.ret = TRUE /\ db' = db)]_vars

\* C18: delete_restaurant(id) for an id that matches no restaurant changes
\* nothing, and returns success exactly when it had a connection and its
\* commit went through (always with sqlite3); deleting the same id a second
\* time leaves the store the first call left
C18_DeleteMissingChangesNothing ==
    [][(last'.op = "delete_restaurant" /\ last'.restaurant_id \notin Ids(db))
        => /\ db' = db
           /\ last'.ret = last'.committed
           /\ backend = "sqlite" => last'.ret = TRUE
           /\ (backend = "turso" /\ cache' = "None") => last'.ret = FALSE
           /\ \A restaurant_id \in RestaurantIds :
                 LET once == sqlite_delete_restaurant(db, restaurant_id, foreign_keys)
                     conn == turso_delete_restaurant(db, "conn", restaurant_id,
                                                     foreign_keys, "none")
                 IN /\ sqlite_delete_restaurant(once.db, restaurant_id, foreign_keys)
                       = once
                    /\ turso_delete_restaurant(conn.db, "conn", restaurant_id,
                                               foreign_keys, "none") = conn]_vars

\* delete_restaurant was called with an id no row ever had while another
\* restaurant and a review are stored, and it returned success
C18_Witness ==
    /\ last.op = "delete_restaurant"
    /\ last.restaurant_id > db.seq_restaurants
    /\ last.ret = TRUE
    /\ db.restaurants # {}
    /\ db.reviews # EmptyBag


\* C19: delete_user(name) leaves restaurants and reviews unchanged, removes
\* only the user row with that name, and returns success with no change when
\* no such user exists (a call whose connection or commit failed aside)
C19_DeleteUserFrame ==
    [][last'.op = "delete_user"
        => /\ db'.restaurants = db.restaurants
           /\ db'.reviews = db.reviews
           /\ \A name \in BagToSet(db.users) \ {last'.name} :
                 CopiesIn(name, db'.users) = CopiesIn(name, db.users)
           /\ BagToSet(db'.users) \subseteq BagToSet(db.users)
           /\ (last'.name \notin BagToSet(db.users) /\ last'.committed)
              => (last'.ret = TRUE /\ db' = db)]_vars


\* C21: the schema script seeds the default user names only when the users
\* table is freshly empty: a run on a table that holds users re-inserts no
\* default name removed by delete_user
C21_SeedsOnlyWhenEmpty ==
    [][(last'.op = "setup_database" /\ db.tables /\ db.users # EmptyBag)
        => db'.users = db.users]_vars


\* C22: across any interleaving of concurrent callers of connect_db the
\* backing connection is created at most once and every caller receives
\* that same connection object
C22_ConnectionCreatedOnce ==
    /\ connects <= 1
    /\ \A c \in Callers : pc[c] = "done" => received[c] = cache
    /\ \A c1, c2 \in Callers :
          (pc[c1] = "done" /\ pc[c2] = "done") => received[c1] = received[c2]

\* one caller has created the connection and not yet stored it while another,
\* whose lookup missed as well, waits for the lock
C22_Witness ==
    \E c1, c2 \in Callers :
        /\ c1 # c2
        /\ pc[c1] = "write"
        /\ received[c1] = "conn"
        /\ pc[c2] = "miss"
        /\ connects = 1


\* the reviews of the restaurant last asked about that carry a rating
Rated ==
    LET group == get_reviews_for_restaurant(db, last.restaurant_id)
    IN [v \in {x \in BagToSet(group) : x.rating # NoneInt} |-> group[v]]

\* C23 as stated: get_average_rating(restaurant_id) returns the mean of the
\* ratings of that restaurant's reviews, and 0 when there is none
C23_Original ==
    last.op = "get_average_rating"
    => IF Rated = EmptyBag THEN last.ret.num = 0
       ELSE last.ret.num * BagCardinality(Rated)
            = SumRatings(BagToSet(Rated), Rated) * last.ret.den

\* C23: get_average_rating(restaurant_id) returns the mean of the ratings
\* stored for that restaurant rounded to one decimal place (a multiple of
\* 0.1 at most 0.05 away from the mean), and 0 when no rating is stored for it
C23_MeanRoundedToOneDecimal ==
    last.op = "get_average_rating"
    => IF Rated = EmptyBag THEN last.ret = ZeroAvg
       ELSE LET n == BagCardinality(Rated)
                s == SumRatings(BagToSet(Rated), Rated)
                p == last.ret.num
                q == last.ret.den
                diff == IF p * n >= s * q THEN p * n - s * q ELSE s * q - p * n
            IN /\ q > 0
               /\ (10 * p) % q = 0
               /\ 20 * diff <= q * n

\* an average was returned that differs from the mean of the three ratings
\* it was taken from
C23_Witness ==
    /\ last.op = "get_average_rating"
    /\ BagCardinality(Rated) = 3
    /\ last.ret.num * 3 # SumRatings(BagToSet(Rated), Rated) * last.ret.den


\* the place of a name in the ascending order of names
Place(name) == CHOOSE i \in 1..Len(NameOrder) : NameOrder[i] = name

\* C24: get_all_users returns the names of all stored users sorted ascending
\* with no omission and no duplicate, and get_user_count returns the length
\* of that list, after any sequence of add_user and delete_user calls
C24_UsersSortedAndCounted ==
    db.tables
    => \A conn \in ReadConns :
          LET result == ReadResult(conn, get_all_users(db))
              count == IF conn = "conn" THEN get_user_count(db) ELSE 0
          IN /\ count = Len(result)
             /\ conn = "conn"
                => /\ {result[i] : i \in 1..Len(result)} = BagToSet(db.users)
                   /\ \A i, j \in 1..Len(result) :
                         i < j => Place(result[i]) < Place(result[j])

\* a user was added and a default user deleted, so the list is neither the
\* default one nor in insertion order
C24_Witness ==
    /\ last.op \in {"add_user", "delete_user"}
    /\ "Zoe" \in BagToSet(db.users)
    /\ "Anish" \notin BagToSet(db.users)
    /\ "Raj" \in BagToSet(db.users)
    /\ Len(get_all_users(db)) = 5


\* C25: add_user(name) with a name not yet stored inserts the user and
\* returns True, and get_all_users contains the name afterwards (a Turso call
\* whose connection or commit failed aside)
C25_AddNewUserSucceeds ==
    [][(/\ last'.op = "add_user"
        /\ last'.name \notin BagToSet(db.users)
        /\ (backend = "sqlite" \/ last'.committed))
        => /\ last'.ret = TRUE
           /\ Occurrences(get_all_users(db'), last'.name) = 1]_vars


\* C26: ids returned by successive successful add_restaurant calls are
\* strictly increasing and an id is never reused after delete_restaurant, so
\* the newest restaurant comes first when ordered by id descending
C26_IdsIncreaseNeverReused ==
    [][last'.op = "add_restaurant"
        => /\ \A r \in db'.restaurants \ db.restaurants : r.id \notin last.used
           /\ last'.ret # NoneInt
              => /\ \A id \in last.used : id < last'.ret
                 /\ \E r \in db'.restaurants \ db.restaurants : r.id = last'.ret
                 /\ fetch_all_restaurants(db')[1].id = last'.ret]_vars

\* a restaurant was added after the one with the largest id had been deleted
C26_Witness ==
    /\ last.op = "add_restaurant"
    /\ last.ret # NoneInt
    /\ \E id \in last.used : id \notin {r.id : r \in db.restaurants}
    /\ Cardinality(db.restaurants) = 1


C28_NoConnectionNoEffect ==
    [][(backend = "turso" /\ cache' = "None")
        => /\ db' = db
           /\ last'.op \in MutatingOps => ~Succeeded(last')
           /\ last'.op \in ReadOps => last'.ret = EmptyResult(last'.op)]_vars

\* fetch_all_restaurants was called without a connection on a store that
\* holds a restaurant with a review, and returned the empty frame
C28_Witness ==
    /\ cache = "None"
    /\ last.op = "fetch_all_restaurants"
    /\ last.ret = <<>>
    /\ db.restaurants # {}
    /\ db.reviews # EmptyBag

\* C29: after get_turso_connection failed once and returned None, a later
\* connect_db() call made while the store is reachable (and the secrets are
\* set) obtains a working connection.  Every call made once an entry is
\* cached is one with the store reachable
C29_ConnectionRecovers ==
    [][(backend = "turso" /\ secrets /\ cache = "None"
            /\ last'.op \in MutatingOps \cup ReadOps)
        => cache' = "conn"]_vars

====
